---- MODULE Spec2Model ----
(***************************************************************************)
(* The code-analysis stage of Code-reader: the admission gate and retry    *)
(* loop of LLMParser, the two ways files are driven through it (the        *)
(* AsyncParallelBatchNode CodeParsingBatchNode.exec_async, and             *)
(* process_files_with_llm_parallel / parse_files_in_batches), the          *)
(* incremental report artifacts and post_async.                            *)
(*                                                                         *)
(* Everything runs on one asyncio event loop.  `running` is the task that  *)
(* holds the loop; a task gives the loop up only where the code really     *)
(* suspends (a contended semaphore, asyncio.sleep, returning to gather).   *)
(* The OpenAI client, the RAG client and all file I/O are blocking calls.  *)
(***************************************************************************)
EXTENDS Integers, Sequences, FiniteSets, TLC

(* ---------------------------- bounds ---------------------------------- *)
NumFiles == 3
MaxResponseItems == 3
MaxCeiling == 2
MaxBatchSize == 2
MaxItems == 2
MaxFailedAttempts == 3
MaxRetrievalFailures == 1
MaxWriteFailures == 1
MaxHits == 1
MaxContents == 2
MaxRetryDelay == 3
MaxPassage == 20

(* ----------------------- program constants ---------------------------- *)
MaxRetries == 3

Files == 1..NumFiles
NoTask == 0

VARIABLES
    mode,           \* "node": AsyncParallelBatchNode over exec_async; "batches": process_files_with_llm_parallel
    max_concurrent, \* config.llm_max_concurrent
    batch_size,     \* config.llm_batch_size
    paths_recorded, \* shared["analysis_report_path"] / ["analysis_json_path"] were set
    local_path,     \* shared["local_path"] is given
    phase,          \* position of the driver coroutine
    chunk_start,    \* i of parse_files_in_batches (0-based offset of the current chunk)
    pc,             \* position of each file's task
    running,        \* the task holding the event loop, NoTask when the loop is free
    semaphore,      \* value of LLMParser.semaphore
    attempt,        \* loop variable `attempt` of _make_api_request, per file
    context,        \* what _get_rag_context returned for the file
    response,       \* what _make_api_request returned for the file
    result,         \* the dict produced for the file
    all_results,    \* exec_res of the node / all_results of parse_files_in_batches
    md_file,        \* analysis_report.md: the sections written, in order
    json_file,      \* analysis_report.json on disk
    json_data,      \* the json_data local of _append_to_json / _finalize_json_report, per task
    code_analysis,  \* shared["code_analysis"]
    backups,        \* the timestamped copies written by _finalize_analysis_report
    called_back,    \* the files the progress callback has been called with
    failed_calls,   \* how many requests to the generation service have failed so far
    appended,       \* the files whose _append_to_json has written the artifact back, in order
    write_errors,   \* the artifact writes whose exception was logged and swallowed
    interrupted,    \* the process was killed
    \* one call of _get_rag_context, followed in detail
    content,        \* the definitions found in file_item["content"]
    has_index,      \* file_item["vectorstore_index"] is set
    search_targets, \* the search_targets list (one target per query of search_queries)
    issued,         \* the targets whose query has been sent to search_knowledge, in order
    retrieved,      \* the all_results list of _get_rag_context
    rag_context,    \* the target groups the returned context is made of
    generated,      \* what parse_code_file_detailed gave for the file
    retry_delay,    \* config.llm_retry_delay, in units of time
    delay,          \* per file: the argument of the asyncio.sleep it is suspended in, 0 when not sleeping
    stored,         \* SaveToMySQLNode: whether it ran, and the FileAnalysis rows it was handed
    \* one call of _parse_detailed_response, followed in detail
    llm_response,   \* the text the model answered with, decoded
    parsed,         \* what _parse_detailed_response returned for it
    rpc             \* position in exec_async: "idle", "extract", "search", "combine", "generate", "done"

cfg == <<mode, max_concurrent, batch_size, paths_recorded, local_path, retry_delay>>
out == <<all_results, code_analysis, backups, called_back>>
gen == <<attempt, response, result>>
disk == <<md_file, json_file, json_data, appended, write_errors>>
db == <<stored>>
timer == <<delay>>

parsing == <<llm_response, parsed>>

retrieval == <<content, has_index, search_targets, issued, retrieved, rag_context, generated, rpc>>

rag == <<retrieval, parsing>>

vars == <<db, timer, cfg, out, gen, disk, phase, chunk_start, pc, running, semaphore, context,
          failed_calls, interrupted, rag>>

(* ------------------------------ values -------------------------------- *)
NoResponse == [kind |-> "none", items |-> 0]
\* a decoded response holds no valid item, or MaxItems of them
ItemCounts == {0, MaxItems}

\* the response is no JSON object, an object with its items, or an object that has items and
\* an "error" key of its own (the decoded object is the result, so the key stays in it)
Responses ==
    {[kind |-> "bad", items |-> 0], [kind |-> "reported", items |-> MaxItems]}
    \cup {[kind |-> "json", items |-> n] : n \in ItemCounts}

NoResult == [file_path |-> 0, analysis_items |-> 0, error |-> "unset"]

NoSummary == [total_files_processed |-> -1, successful_files |-> -1, failed_files |-> -1]

\* the keys of statistics.search_targets: the target _infer_search_target gives an item whose
\* title names a class (shared by all files), and each file's own file-level target
ClassTarget == 0
Targets == {ClassTarget} \cup Files

\* a statistics object without the "search_targets" key counts nothing for any target
NoTargets == [t \in Targets |-> 0]

\* the artifact as _initialize_analysis_file writes it
InitialJson ==
    [valid |-> TRUE, files |-> <<>>, total_files |-> 0, total_snippets |-> 0,
     search_targets |-> NoTargets, summary |-> NoSummary]

\* the artifact right after open(json_path, "w") and before json.dump has written it
TruncatedJson ==
    [valid |-> FALSE, files |-> <<>>, total_files |-> 0, total_snippets |-> 0,
     search_targets |-> NoTargets, summary |-> NoSummary]

NoData ==
    [valid |-> FALSE, files |-> <<>>, total_files |-> -1, total_snippets |-> -1,
     search_targets |-> NoTargets, summary |-> NoSummary]

(* ------------------------- LLMParser helpers -------------------------- *)
LastAttemptOffByOne(k) == k = MaxRetries - 2

\* `if attempt == max_retries - 1: raise`
LastAttempt(k) == k = MaxRetries - 1

ErrorResultUnlabelled(f, msg) == [file_path |-> 0, analysis_items |-> 0, error |-> msg]

\* {"file_path": file_path, "analysis_items": [], "error": str(e)}
ErrorResult(f, msg) == [file_path |-> f, analysis_items |-> 0, error |-> msg]

ExhaustedErrorEmpty == ""

\* str(LLMParsingError(f"API request failed: {str(e)}"))
ExhaustedError == "API request failed"

\* _parse_detailed_response: an undecodable response gives an error result, a decoded one
\* gives its valid items under the file's own path
ParseDetailedResponse(resp, f) ==
    IF resp.kind = "reported"
    THEN [file_path |-> f, analysis_items |-> resp.items, error |-> "reported by the model"]
    ELSE IF resp.kind = "json"
    THEN [file_path |-> f, analysis_items |-> resp.items, error |-> ""]
    ELSE ErrorResult(f, "JSON parsing error")

HasError(r) == r.error # ""

(* --------------------------- scheduling ------------------------------- *)
SuspendsAtWithAsyncIO(p) == p \in {"wait", "sleep", "done", "jsonwrite"}
SuspendsNowhere(p) == FALSE

\* the places where a file's task gives up the event loop
SuspendsAt(p) == p \in {"wait", "sleep", "done"}

Yield(f, p) == IF SuspendsAt(p) THEN NoTask ELSE f

CanRun(f) == ~interrupted /\ running \in {NoTask, f}

GateOpenAlways(v) == TRUE

\* asyncio.Semaphore.acquire proceeds only while the value is positive
GateOpen(v) == v > 0

InFlight == {f \in Files : pc[f] \in {"call", "sleep"}}
Launched == {f \in Files : pc[f] # "idle"}
Settled == {f \in Files : pc[f] = "done"}

(* ---------------------------- chunking -------------------------------- *)
Min(a, b) == IF a < b THEN a ELSE b

\* file_items[i : i + self.batch_size]
Chunk(i) == {f \in Files : i < f /\ f <= Min(i + batch_size, NumFiles)}

ChunkOf(f) == (f - 1) \div batch_size

(* ----------------------- the artifacts' content ----------------------- *)
FileSection(f) == [section |-> "file", file_path |-> f, successful |-> 0, failed |-> 0]
StatsSection(ok, bad) == [section |-> "stats", file_path |-> 0, successful |-> ok, failed |-> bad]

FileRecord(r) == [file_path |-> r.file_path, analysis_items |-> r.analysis_items]

\* the run starts on what an earlier run over the same folder left in data/results/<repo>/:
\* a finalized report in which the first file succeeded with items and the others failed
PreviousMarkdown == <<FileSection(1), StatsSection(1, NumFiles - 1)>>

PreviousJson ==
    [valid |-> TRUE,
     files |-> <<[file_path |-> 1, analysis_items |-> MaxItems]>>,
     total_files |-> 1,
     total_snippets |-> MaxItems,
     search_targets |-> [t \in Targets |-> IF t = 1 THEN MaxItems ELSE 0],
     summary |-> [total_files_processed |-> NumFiles, successful_files |-> 1,
                  failed_files |-> NumFiles - 1]]

\* SaveToMySQLNode has not run
NotStored == [saved |-> FALSE, rows |-> <<>>]

(* ------------------------------ Init ---------------------------------- *)
\* the run as prep_async finds it
PipelineInit ==
    /\ mode \in {"node", "batches"}
    /\ max_concurrent \in 1..MaxCeiling
    /\ batch_size \in 1..MaxBatchSize
    /\ paths_recorded = FALSE
    /\ local_path \in BOOLEAN
    /\ phase = "prep"
    /\ chunk_start = 0
    /\ pc = [f \in Files |-> "idle"]
    /\ running = NoTask
    /\ semaphore = max_concurrent
    /\ attempt = [f \in Files |-> 0]
    /\ context = [f \in Files |-> "unset"]
    /\ response = [f \in Files |-> NoResponse]
    /\ result = [f \in Files |-> NoResult]
    /\ all_results = <<>>
    /\ md_file = PreviousMarkdown
    /\ json_file = PreviousJson
    /\ json_data = [f \in 0..NumFiles |-> NoData]
    /\ code_analysis = <<>>
    /\ backups = <<>>
    /\ called_back = {}
    /\ stored = NotStored
    /\ delay = [f \in Files |-> 0]
    /\ write_errors = {}
    /\ failed_calls = 0
    /\ appended = <<>>
    /\ interrupted = FALSE

NoContent == [classes |-> <<>>, methods |-> <<>>, functions |-> {}, nested |-> {}]

\* no response is being followed through _parse_detailed_response
NoLLMResponse == [kind |-> "none", has_items |-> FALSE, own_error |-> FALSE, items |-> <<>>]
NotParsed == [state |-> "none", analysis_items |-> <<>>, error |-> ""]

ParsingIdle ==
    /\ llm_response = NoLLMResponse
    /\ parsed = NotParsed

\* no call of _get_rag_context is followed in detail
RetrievalIdle ==
    /\ content = NoContent
    /\ has_index = FALSE
    /\ search_targets = <<>>
    /\ issued = <<>>
    /\ retrieved = <<>>
    /\ rag_context = <<>>
    /\ generated = "none"
    /\ rpc = "idle"

\* the retry delay the pipeline runs are followed with
UnitDelay == 1

Init == PipelineInit /\ RetrievalIdle /\ ParsingIdle /\ retry_delay = UnitDelay

(* ------------------------- driver coroutines -------------------------- *)
DriverCanRun == ~interrupted /\ running = NoTask

LocalPathUnchecked(given) == FALSE

\* prep_async: `if not local_path: raise LLMParsingError("Local path is required")`
LocalPathMissing(given) == ~given

RewrittenKeepingRecords(old) == IF old.valid THEN old ELSE InitialJson

\* _initialize_analysis_file: open(json_path, "w") and json.dump(initial_json_data), whatever
\* the file held
Rewritten(old) == InitialJson

PathsRecordedAlways(outcome) == TRUE

\* _initialize_analysis_file: shared["analysis_report_path"] and shared["analysis_json_path"]
\* are set after both artifacts have been written; an exception before that is logged
PathsRecorded(outcome) == outcome = "written"

\* prep_async: without a local path it raises at once; otherwise it scans the folder for the
\* files and runs _initialize_analysis_file, which rewrites both artifacts and records their
\* paths in shared, or fails (before writing anything, or while writing the JSON artifact), the
\* failure being logged and swallowed
PrepAsync ==
    /\ DriverCanRun
    /\ phase = "prep"
    /\ IF LocalPathMissing(local_path)
       THEN /\ phase' = "raised"
            /\ UNCHANGED <<paths_recorded, md_file, json_file>>
       ELSE /\ phase' = IF mode = "batches" THEN "retrieve" ELSE "launch"
            /\ \E outcome \in {"written", "nothing written", "json not written"} :
                  /\ paths_recorded' = PathsRecorded(outcome)
                  /\ md_file' = IF outcome = "nothing written" THEN md_file ELSE <<>>
                  /\ json_file' = CASE outcome = "written" -> Rewritten(json_file)
                                     [] outcome = "nothing written" -> json_file
                                     [] outcome = "json not written" -> TruncatedJson
    /\ UNCHANGED <<rag, db, timer, mode, max_concurrent, batch_size, local_path, retry_delay, out, gen, json_data, appended,
                   write_errors, chunk_start, pc, running, semaphore, context, failed_calls,
                   interrupted>>

RetrievalFailures(c) == Cardinality({f \in Files : c[f] = "empty"})

\* process_files_with_llm_parallel: `context = await self._get_rag_context(file_item)` for every
\* file, before any generation call; search_knowledge is a blocking call
RetrieveAll ==
    /\ DriverCanRun
    /\ mode = "batches" /\ phase = "retrieve"
    /\ \E c \in [Files -> {"empty", "some"}] :
          /\ RetrievalFailures(c) <= MaxRetrievalFailures
          /\ context' = c
    /\ phase' = "launch"
    /\ UNCHANGED <<rag, db, timer, cfg, out, gen, disk, chunk_start, pc, running, semaphore, failed_calls,
                   interrupted>>

GatheredAny(S) == \E f \in S : pc[f] = "done"

\* `await asyncio.gather(*tasks)` returns once every task has returned
Gathered(S) == \A f \in S : pc[f] = "done"

\* parse_files_in_batches hands the chunk at offset i to parse_files_parallel, whose
\* asyncio.gather creates one task per file of the chunk
LaunchChunk ==
    /\ DriverCanRun
    /\ mode = "batches" /\ phase = "launch"
    /\ pc' = [f \in Files |-> IF f \in Chunk(chunk_start) THEN "start" ELSE pc[f]]
    /\ phase' = "await"
    /\ UNCHANGED <<rag, db, timer, cfg, out, gen, disk, chunk_start, running, semaphore, context, failed_calls,
                   interrupted>>

\* the processed_results of parse_files_parallel for the chunk starting at i, in input order
ChunkResults(i) == [k \in 1..(Min(i + batch_size, NumFiles) - i) |-> result[i + k]]

\* gather of the chunk has returned: all_results.extend(batch_results), then the next chunk
ChunkDone ==
    /\ DriverCanRun
    /\ mode = "batches" /\ phase = "await"
    /\ Gathered(Chunk(chunk_start))
    /\ all_results' = all_results \o ChunkResults(chunk_start)
    /\ chunk_start' = chunk_start + batch_size
    /\ phase' = IF chunk_start + batch_size < NumFiles THEN "launch" ELSE "returned"
    /\ UNCHANGED <<rag, db, timer, cfg, code_analysis, backups, called_back, gen, disk, pc, running, semaphore,
                   context, failed_calls, interrupted>>

\* AsyncParallelBatchNode._exec: asyncio.gather over exec_async of every item of prep_res;
\* the node's batch_size plays no part
LaunchAll ==
    /\ DriverCanRun
    /\ mode = "node" /\ phase = "launch"
    /\ pc' = [f \in Files |-> "start"]
    /\ phase' = "await"
    /\ UNCHANGED <<rag, db, timer, cfg, out, gen, disk, chunk_start, running, semaphore, context, failed_calls,
                   interrupted>>

(* --------------------------- a file's task ---------------------------- *)
\* `async with self.semaphore`: take a slot or suspend
Enter(v) == IF GateOpen(v) THEN "call" ELSE "wait"

\* the task's first run (the loop runs the tasks of one gather in the order they were
\* created): exec_async retrieves the context (node), then parse_code_file_detailed reaches
\* the admission gate
Begin(f) ==
    /\ CanRun(f)
    /\ pc[f] = "start"
    /\ \A g \in Files : g < f => pc[g] # "start"
    /\ IF mode = "node"
       THEN \E c \in {"empty", "some"} :
               /\ context' = [context EXCEPT ![f] = c]
               /\ RetrievalFailures(context') <= MaxRetrievalFailures
       ELSE UNCHANGED context
    /\ pc' = [pc EXCEPT ![f] = Enter(semaphore)]
    /\ semaphore' = IF Enter(semaphore) = "call" THEN semaphore - 1 ELSE semaphore
    /\ running' = Yield(f, Enter(semaphore))
    /\ UNCHANGED <<rag, db, timer, cfg, out, gen, disk, phase, chunk_start, failed_calls, interrupted>>

\* a waiter at the semaphore is resumed once a slot is free
Acquire(f) ==
    /\ CanRun(f)
    /\ pc[f] = "wait"
    /\ GateOpen(semaphore)
    /\ semaphore' = semaphore - 1
    /\ pc' = [pc EXCEPT ![f] = "call"]
    /\ running' = Yield(f, "call")
    /\ UNCHANGED <<rag, db, timer, cfg, out, gen, disk, phase, chunk_start, context, failed_calls, interrupted>>

\* one pass of `for attempt in range(max_retries)` in which the request returns: the slot is
\* released and parse_code_file_detailed decodes the response
AttemptReturns(f) ==
    /\ CanRun(f)
    /\ pc[f] = "call"
    /\ \E r \in Responses :
          /\ response' = [response EXCEPT ![f] = r]
          /\ result' = [result EXCEPT ![f] = ParseDetailedResponse(r, f)]
    /\ semaphore' = semaphore + 1
    /\ pc' = [pc EXCEPT ![f] = "parsed"]
    /\ running' = Yield(f, "parsed")
    /\ UNCHANGED <<rag, db, timer, cfg, out, attempt, disk, phase, chunk_start, context, failed_calls,
                   interrupted>>

BackoffConstant(d, k) == d

\* self.retry_delay * (2**attempt)
Backoff(d, k) == d * 2^k

SlotAfterAnyFailure(v, last) == v + 1

\* `async with self.semaphore` encloses the whole retry loop: a failed pass leaves the
\* block, and gives the slot back, only by the raise of the last attempt
SlotAfterFailure(v, last) == IF last THEN v + 1 ELSE v

\* one pass in which the request fails: the backoff sleep, or on the last attempt the raise
\* out of the gate, which parse_code_file_detailed turns into an error result
AttemptFails(f) ==
    /\ CanRun(f)
    /\ pc[f] = "call"
    /\ failed_calls < MaxFailedAttempts
    /\ failed_calls' = failed_calls + 1
    /\ IF LastAttempt(attempt[f])
       THEN /\ result' = [result EXCEPT ![f] = ErrorResult(f, ExhaustedError)]
            /\ pc' = [pc EXCEPT ![f] = "parsed"]
            /\ running' = Yield(f, "parsed")
            /\ UNCHANGED delay
       ELSE /\ delay' = [delay EXCEPT ![f] = Backoff(retry_delay, attempt[f])]
            /\ pc' = [pc EXCEPT ![f] = "sleep"]
            /\ running' = Yield(f, "sleep")
            /\ UNCHANGED result
    /\ semaphore' = SlotAfterFailure(semaphore, LastAttempt(attempt[f]))
    /\ UNCHANGED <<rag, db, cfg, out, attempt, response, disk, phase, chunk_start, context, interrupted>>

\* asyncio.sleep(self.retry_delay * (2**attempt)) is over: next pass of the loop
Retry(f) ==
    /\ CanRun(f)
    /\ pc[f] = "sleep"
    /\ attempt' = [attempt EXCEPT ![f] = attempt[f] + 1]
    /\ delay' = [delay EXCEPT ![f] = 0]
    /\ pc' = [pc EXCEPT ![f] = "call"]
    /\ running' = Yield(f, "call")
    /\ UNCHANGED <<rag, db, cfg, out, response, result, disk, phase, chunk_start, semaphore, context,
                   failed_calls, interrupted>>

(* ------------------------ the report artifacts ------------------------ *)
ShouldAppendWithItems(r) == paths_recorded /\ r.analysis_items > 0
ShouldAppendWithoutError(r) == ~HasError(r) /\ paths_recorded

\* exec_async appends only a result without error; _append_analysis_to_file returns early
\* when the paths are missing from shared or the result has no items
ShouldAppend(r) == ~HasError(r) /\ paths_recorded /\ r.analysis_items > 0

\* target_groups of _append_to_json, as the number of items under each target, when k of the
\* file's items carry the class target and the others the file-level one
TargetGroups(r, k) ==
    [t \in Targets |-> IF t = ClassTarget THEN k
                       ELSE IF t = r.file_path THEN r.analysis_items - k
                       ELSE 0]

WithRecordStaleCounters(data, r, k) ==
    [data EXCEPT !.files = Append(data.files, FileRecord(r)),
                 !.total_files = Len(data.files) + 1,
                 !.total_snippets = data.total_snippets + 1,
                 !.search_targets = [t \in Targets |-> data.search_targets[t] + TargetGroups(r, k)[t]]]

\* _append_to_json, between json.load and the write: the record is appended and the
\* statistics are updated in the loaded copy
WithRecord(data, r, k) ==
    [data EXCEPT !.files = Append(data.files, FileRecord(r)),
                 !.total_files = Len(data.files) + 1,
                 !.total_snippets = data.total_snippets + r.analysis_items,
                 !.search_targets = [t \in Targets |-> data.search_targets[t] + TargetGroups(r, k)[t]]]

WithSummaryOmitted(data, ok, bad) == data

\* _finalize_json_report, between json.load and the write
WithSummary(data, ok, bad) ==
    [data EXCEPT !.summary = [total_files_processed |-> ok + bad,
                              successful_files |-> ok,
                              failed_files |-> bad]]

\* parse_code_file_detailed has returned (its locals are gone) and parse_files_parallel hands
\* the result back to gather; nothing is written
Return(f) ==
    /\ CanRun(f)
    /\ mode = "batches" /\ pc[f] = "parsed"
    /\ pc' = [pc EXCEPT ![f] = "done"]
    /\ running' = Yield(f, "done")
    /\ attempt' = [attempt EXCEPT ![f] = 0]
    /\ response' = [response EXCEPT ![f] = NoResponse]
    /\ UNCHANGED <<rag, db, timer, cfg, out, result, disk, phase, chunk_start, semaphore, context, failed_calls,
                   interrupted>>

\* exec_async, `if not result.get("error")` is false, or _append_analysis_to_file returns early
SkipAppend(f) ==
    /\ CanRun(f)
    /\ mode = "node" /\ pc[f] = "parsed"
    /\ ~ShouldAppend(result[f])
    /\ pc' = [pc EXCEPT ![f] = "callback"]
    /\ running' = Yield(f, "callback")
    /\ attempt' = [attempt EXCEPT ![f] = 0]
    /\ response' = [response EXCEPT ![f] = NoResponse]
    /\ UNCHANGED <<rag, db, timer, cfg, out, result, disk, phase, chunk_start, semaphore, context, failed_calls,
                   interrupted>>

\* an artifact write may fail (the exception is logged and swallowed)
MayFail(ok) == ok \/ Cardinality(write_errors) < MaxWriteFailures

\* `except Exception as e: logger.error(...)` of _append_to_markdown and _append_to_json: the
\* exception ends there and exec_async returns the result it had
AfterWriteFailure(r) == r

WithSectionFirst(md, f) == <<FileSection(f)>> \o md

\* open(markdown_path, "a") and the writes of _append_to_markdown: the file's section goes to
\* the end of the report
WithSection(md, f) == Append(md, FileSection(f))

\* _append_to_markdown: the file's section is appended, or the write fails and is logged
AppendToMarkdown(f) ==
    /\ CanRun(f)
    /\ mode = "node" /\ pc[f] = "parsed"
    /\ ShouldAppend(result[f])
    /\ \E ok \in BOOLEAN :
          /\ MayFail(ok)
          /\ IF ok
             THEN /\ md_file' = WithSection(md_file, f)
                  /\ UNCHANGED <<write_errors, result>>
             ELSE /\ write_errors' = write_errors \cup {<<f, "md">>}
                  /\ result' = [result EXCEPT ![f] = AfterWriteFailure(result[f])]
                  /\ UNCHANGED md_file
    /\ pc' = [pc EXCEPT ![f] = "jsonread"]
    /\ running' = Yield(f, "jsonread")
    /\ attempt' = [attempt EXCEPT ![f] = 0]
    /\ response' = [response EXCEPT ![f] = NoResponse]
    /\ UNCHANGED <<rag, db, timer, cfg, out, json_file, json_data, appended, phase, chunk_start, semaphore,
                   context, failed_calls, interrupted>>

\* _append_to_json up to the write: open and json.load, then the record is added to the copy;
\* a failure to open or decode is logged and the append is given up
JsonRead(f) ==
    /\ CanRun(f)
    /\ pc[f] = "jsonread"
    /\ \E ok \in BOOLEAN :
          /\ MayFail(ok)
          /\ IF ok /\ json_file.valid
             THEN /\ \E k \in 0..result[f].analysis_items :
                       json_data' = [json_data EXCEPT ![f] = WithRecord(json_file, result[f], k)]
                  /\ pc' = [pc EXCEPT ![f] = "jsonwrite"]
                  /\ running' = Yield(f, "jsonwrite")
                  /\ UNCHANGED <<write_errors, result>>
             ELSE /\ write_errors' = write_errors
                                      \cup {<<f, IF json_file.valid THEN "json" ELSE "unreadable">>}
                  /\ result' = [result EXCEPT ![f] = AfterWriteFailure(result[f])]
                  /\ pc' = [pc EXCEPT ![f] = "callback"]
                  /\ running' = Yield(f, "callback")
                  /\ UNCHANGED json_data
    /\ UNCHANGED <<rag, db, timer, cfg, out, attempt, response, md_file, json_file, appended, phase,
                   chunk_start, semaphore, context, failed_calls, interrupted>>

\* open(json_path, "w") empties the artifact
JsonOpenForWrite(f) ==
    /\ CanRun(f)
    /\ pc[f] = "jsonwrite"
    /\ json_file' = TruncatedJson
    /\ pc' = [pc EXCEPT ![f] = "jsondump"]
    /\ running' = Yield(f, "jsondump")
    /\ UNCHANGED <<rag, db, timer, cfg, out, gen, md_file, json_data, appended, write_errors, phase,
                   chunk_start, semaphore, context, failed_calls, interrupted>>

\* json.dump(json_data, f) and close; when the write fails the artifact stays as open(.., "w")
\* left it, the exception being logged like the others
JsonDump(f) ==
    /\ CanRun(f)
    /\ pc[f] = "jsondump"
    /\ \E ok \in BOOLEAN :
          /\ MayFail(ok)
          /\ IF ok
             THEN /\ json_file' = json_data[f]
                  /\ appended' = Append(appended, f)
                  /\ UNCHANGED <<write_errors, result>>
             ELSE /\ write_errors' = write_errors \cup {<<f, "dump">>}
                  /\ result' = [result EXCEPT ![f] = AfterWriteFailure(result[f])]
                  /\ UNCHANGED <<json_file, appended>>
    /\ json_data' = [json_data EXCEPT ![f] = NoData]
    /\ pc' = [pc EXCEPT ![f] = "callback"]
    /\ running' = Yield(f, "callback")
    /\ UNCHANGED <<rag, db, timer, cfg, out, attempt, response, md_file, phase, chunk_start, semaphore,
                   context, failed_calls, interrupted>>

\* exec_async with a progress callback in shared: progress_callback(current_file=...) is
\* called; it returns, and exec_async returns the result, or it raises into the handler
Callback(f) ==
    /\ CanRun(f)
    /\ pc[f] = "callback"
    /\ called_back' = called_back \cup {f}
    /\ \E raised \in BOOLEAN :
          /\ pc' = [pc EXCEPT ![f] = IF raised THEN "caught" ELSE "done"]
          /\ running' = Yield(f, IF raised THEN "caught" ELSE "done")
    /\ UNCHANGED <<rag, db, timer, cfg, all_results, code_analysis, backups, gen, disk, phase, chunk_start,
                   semaphore, context, failed_calls, interrupted>>

AfterCallbackPropagates(r, f) == ErrorResult(f, "callback failed")

\* `except Exception as e: logger.warning(...)` around the callback, then `return result`
AfterCallback(r, f) == r

\* the callback's exception has been logged: exec_async returns
CallbackCaught(f) ==
    /\ CanRun(f)
    /\ pc[f] = "caught"
    /\ result' = [result EXCEPT ![f] = AfterCallback(result[f], f)]
    /\ pc' = [pc EXCEPT ![f] = "done"]
    /\ running' = Yield(f, "done")
    /\ UNCHANGED <<rag, db, timer, cfg, out, attempt, response, disk, phase, chunk_start, semaphore, context,
                   failed_calls, interrupted>>

(* ----------------------------- post_async ----------------------------- *)
ExecRes == [f \in Files |-> result[f]]
NoErrorNeedsItems(r) == r.analysis_items > 0 /\ ~HasError(r)

\* post_async: `if not r.get("error")`
NoError(r) == ~HasError(r)

\* post_async: split exec_res, publish the successes, then _finalize_analysis_report up to
\* the rewrite of the JSON artifact (skipped altogether when the paths are missing). A failure
\* to append the statistics to the report ends the finalization (outer except); a failure to
\* open or decode the JSON artifact is swallowed by _finalize_json_report and the backups are
\* made all the same
PostAsync ==
    /\ DriverCanRun
    /\ mode = "node" /\ phase = "await"
    /\ Gathered(Files)
    /\ all_results' = ExecRes
    /\ code_analysis' = SelectSeq(ExecRes, NoError)
    /\ LET ok == Len(SelectSeq(ExecRes, NoError))
           bad == Len(ExecRes) - ok
       IN IF paths_recorded
          THEN \E outcome \in {"written", "report not written", "json not read"} :
                  /\ MayFail(outcome = "written") \/ (outcome = "json not read" /\ ~json_file.valid)
                  /\ outcome = "written" => json_file.valid
                  /\ md_file' = IF outcome = "report not written" THEN md_file
                                ELSE Append(md_file, StatsSection(ok, bad))
                  /\ json_data' = IF outcome = "written"
                                  THEN [json_data EXCEPT ![NoTask] = WithSummary(json_file, ok, bad)]
                                  ELSE json_data
                  /\ write_errors' = CASE outcome = "written" -> write_errors
                                        [] outcome = "report not written" ->
                                              write_errors \cup {<<NoTask, "md">>}
                                        [] outcome = "json not read" ->
                                              write_errors \cup {<<NoTask, "json">>}
                  /\ phase' = CASE outcome = "written" -> "finwrite"
                                [] outcome = "report not written" -> "finished"
                                [] outcome = "json not read" -> "backup"
          ELSE /\ phase' = "finished"
               /\ UNCHANGED <<md_file, json_data, write_errors>>
    /\ UNCHANGED <<rag, db, timer, cfg, backups, called_back, gen, json_file, appended,
                   chunk_start, pc, running, semaphore, context, failed_calls, interrupted>>

\* _finalize_json_report: open(json_path, "w")
FinalizeOpenForWrite ==
    /\ DriverCanRun
    /\ phase = "finwrite"
    /\ json_file' = TruncatedJson
    /\ phase' = "findump"
    /\ UNCHANGED <<rag, db, timer, cfg, out, gen, md_file, json_data, appended, write_errors, chunk_start, pc,
                   running, semaphore, context, failed_calls, interrupted>>

\* _finalize_json_report: json.dump
FinalizeDump ==
    /\ DriverCanRun
    /\ phase = "findump"
    /\ \E ok \in BOOLEAN :
          /\ MayFail(ok)
          /\ IF ok
             THEN json_file' = json_data[NoTask] /\ UNCHANGED write_errors
             ELSE write_errors' = write_errors \cup {<<NoTask, "dump">>} /\ UNCHANGED json_file
    /\ json_data' = [json_data EXCEPT ![NoTask] = NoData]
    /\ phase' = "backup"
    /\ UNCHANGED <<rag, db, timer, cfg, out, gen, md_file, appended, chunk_start, pc, running,
                   semaphore, context, failed_calls, interrupted>>

\* shutil.copy2 of both artifacts
Backup ==
    /\ DriverCanRun
    /\ phase = "backup"
    /\ backups' = <<md_file, json_file>>
    /\ phase' = "finished"
    /\ UNCHANGED <<rag, db, timer, cfg, all_results, code_analysis, called_back, gen, disk, chunk_start, pc,
                   running, semaphore, context, failed_calls, interrupted>>

\* SaveToMySQLNode.exec, one FileAnalysis row per entry it is handed
FileAnalysisRow(r) ==
    [file_path |-> r.file_path,
     status |-> IF HasError(r) THEN "failed" ELSE "success",
     items |-> r.analysis_items]

HandedEveryResult(shared_code_analysis, exec_res) == exec_res

\* SaveToMySQLNode.exec: `code_analysis = shared.get("code_analysis", [])`, the node's only
\* source of per-file data when it is fed by the flow
HandedToStorage(shared_code_analysis, exec_res) == shared_code_analysis

\* the flow goes on to SaveToMySQLNode once the parsing node has returned
SaveToMySQL ==
    /\ DriverCanRun
    /\ mode = "node" /\ phase = "finished"
    /\ ~stored.saved
    /\ LET handed == HandedToStorage(code_analysis, all_results)
       IN stored' = [saved |-> TRUE,
                     rows |-> [i \in DOMAIN handed |-> FileAnalysisRow(handed[i])]]
    /\ UNCHANGED <<rag, timer, cfg, out, gen, disk, phase, chunk_start, pc, running, semaphore,
                   context, failed_calls, interrupted>>

\* the process is terminated: its memory is gone, the files on disk stay as they are
Interrupt ==
    /\ ~interrupted
    /\ phase \notin {"finished", "returned", "raised"}
    /\ interrupted' = TRUE
    /\ phase' = "killed"
    /\ chunk_start' = 0
    /\ pc' = [f \in Files |-> "idle"]
    /\ running' = NoTask
    /\ semaphore' = max_concurrent
    /\ attempt' = [f \in Files |-> 0]
    /\ context' = [f \in Files |-> "unset"]
    /\ response' = [f \in Files |-> NoResponse]
    /\ result' = [f \in Files |-> NoResult]
    /\ all_results' = <<>>
    /\ code_analysis' = <<>>
    /\ called_back' = {}
    /\ json_data' = [f \in 0..NumFiles |-> NoData]
    /\ failed_calls' = 0
    /\ delay' = [f \in Files |-> 0]
    /\ UNCHANGED <<rag, db, cfg, backups, md_file, json_file, appended, write_errors>>

Next ==
    \/ PrepAsync
    \/ RetrieveAll
    \/ LaunchChunk
    \/ ChunkDone
    \/ LaunchAll
    \/ PostAsync
    \/ SaveToMySQL
    \/ FinalizeOpenForWrite
    \/ FinalizeDump
    \/ Backup
    \/ Interrupt
    \/ \E f \in Files :
          \/ Begin(f)
          \/ Acquire(f)
          \/ AttemptReturns(f)
          \/ AttemptFails(f)
          \/ Retry(f)
          \/ Return(f)
          \/ SkipAppend(f)
          \/ AppendToMarkdown(f)
          \/ JsonRead(f)
          \/ JsonOpenForWrite(f)
          \/ JsonDump(f)
          \/ Callback(f)
          \/ CallbackCaught(f)

Spec == Init /\ [][Next]_vars

(* ================= the node's run when nothing kills it ================ *)
\* a run of the node over a folder, with every call returning or failing in the end and the
\* event loop running whatever is ready
LiveInit ==
    /\ PipelineInit /\ RetrievalIdle /\ ParsingIdle
    /\ mode = "node" /\ batch_size = 1 /\ local_path
    /\ retry_delay = UnitDelay

LiveNext ==
    \/ PrepAsync
    \/ LaunchAll
    \/ PostAsync
    \/ SaveToMySQL
    \/ FinalizeOpenForWrite
    \/ FinalizeDump
    \/ Backup
    \/ \E f \in Files :
          \/ Begin(f)
          \/ Acquire(f)
          \/ AttemptReturns(f)
          \/ AttemptFails(f)
          \/ Retry(f)
          \/ SkipAppend(f)
          \/ AppendToMarkdown(f)
          \/ JsonRead(f)
          \/ JsonOpenForWrite(f)
          \/ JsonDump(f)
          \/ Callback(f)
          \/ CallbackCaught(f)

SpecLive == LiveInit /\ [][LiveNext]_vars /\ WF_vars(LiveNext)

(* ============ the chunked path under every retry delay ================= *)
\* process_files_with_llm_parallel with a configured retry delay of 1..MaxRetryDelay units
BackoffInit ==
    /\ PipelineInit /\ RetrievalIdle /\ ParsingIdle
    /\ mode = "batches" /\ local_path
    /\ retry_delay \in 1..MaxRetryDelay

BackoffNext ==
    \/ PrepAsync
    \/ RetrieveAll
    \/ LaunchChunk
    \/ ChunkDone
    \/ \E f \in Files :
          \/ Begin(f)
          \/ Acquire(f)
          \/ AttemptReturns(f)
          \/ AttemptFails(f)
          \/ Retry(f)
          \/ Return(f)

SpecBackoff == BackoffInit /\ [][BackoffNext]_vars

(* ================= one call of _get_rag_context in detail ============== *)
\* the Python files the call is followed on: the classes in source order with the methods
\* defined directly in each class body, the functions defined at module level, and the
\* functions defined inside another function's body
ClassLists == {<<>>, <<"Foo">>}
MethodNames == {"bar", "baz"}
FunctionNames == {"helper", "bar", "main", "_hidden", "go"}
NestedNames == {"inner"}

Contents ==
    UNION {{[classes |-> cs, methods |-> ms, functions |-> fs, nested |-> ns] :
               ms \in [DOMAIN cs -> SUBSET MethodNames],
               fs \in SUBSET FunctionNames,
               ns \in SUBSET NestedNames} : cs \in ClassLists}

\* func_name.startswith("_")
Private(n) == n \in {"_hidden"}

\* common_words of _extract_independent_functions
CommonWords == {"main", "init", "test", "setup", "teardown", "__init__", "__main__"}

\* class_methods: the methods of all classes of _extract_class_method_relationships
ClassMethods(c) == UNION {c.methods[i] : i \in DOMAIN c.classes}

\* the FunctionDef / AsyncFunctionDef nodes ast.walk visits: every definition, wherever it is
FunctionDefs(c) == c.functions \cup c.nested \cup ClassMethods(c)

IsMethodIgnored(c, n) == FALSE

\* `func_name not in class_methods`, the only test that keeps methods out (no node has a
\* `parent` attribute, so the ClassDef test never excludes anything)
IsMethod(c, n) == n \in ClassMethods(c)

\* independent_functions before the filter; when it is empty the regex fallback runs, which
\* finds no definition the walk did not
IndependentCandidates(c) == {n \in FunctionDefs(c) : ~IsMethod(c, n) /\ ~Private(n)}

FunctionLimit == 10

\* _extract_independent_functions: names longer than 2 characters that are no common word,
\* then filtered_functions[:10] of a list built from a set
ExtractIndependentFunctions(c) ==
    LET kept == {n \in IndependentCandidates(c) : Len(n) > 2 /\ n \notin CommonWords}
    IN IF Cardinality(kept) <= FunctionLimit THEN {kept}
       ELSE {S \in SUBSET kept : Cardinality(S) = FunctionLimit}

\* the lists a set may be iterated as
Orderings(S) == {q \in [1..Cardinality(S) -> S] : \A i, j \in DOMAIN q : q[i] = q[j] => i = j}

FileQuery == [kind |-> "file", name |-> "file_path"]
ClassQuery(n) == [kind |-> "class", name |-> n]
FunctionQuery(n) == [kind |-> "function", name |-> n]

\* search_queries / search_targets: the file, then every class, then every independent function
BuildQueries(c, fs) ==
    <<FileQuery>> \o [i \in DOMAIN c.classes |-> ClassQuery(c.classes[i])]
                 \o [i \in DOMAIN fs |-> FunctionQuery(fs[i])]

RetrievalInit ==
    /\ PipelineInit
    /\ mode = "node" /\ max_concurrent = 1 /\ batch_size = 1 /\ local_path
    /\ retry_delay = UnitDelay
    /\ content \in Contents
    /\ has_index \in BOOLEAN
    /\ search_targets = <<>>
    /\ issued = <<>>
    /\ retrieved = <<>>
    /\ rag_context = <<>>
    /\ generated = "none"
    /\ rpc = "extract"
    /\ ParsingIdle

pipeline == <<cfg, db, timer, out, gen, disk, phase, chunk_start, pc, running, semaphore, context,
              failed_calls, interrupted>>

\* _get_rag_context up to the search loop: no index, no retrieval; otherwise the queries
ExtractQueries ==
    /\ rpc = "extract"
    /\ IF ~has_index
       THEN /\ rpc' = "generate"
            /\ UNCHANGED search_targets
       ELSE /\ rpc' = "search"
            /\ \E S \in ExtractIndependentFunctions(content) :
                  \E fs \in Orderings(S) : search_targets' = BuildQueries(content, fs)
    /\ UNCHANGED <<pipeline, parsing, content, has_index, issued, retrieved, rag_context, generated>>


\* what search_knowledge may give for one query: nothing (the request failed and the client
\* returned [], or processing the answer raised), or up to MaxHits documents; document 0
\* lacks a title or a content and is not kept
Documents == 0..MaxContents
Answers == UNION {[1..n -> Documents] : n \in 1..MaxHits}

\* the entries all_results gains from one answer
Kept(answer, target) ==
    LET usable == SelectSeq(answer, LAMBDA d : d # 0)
    IN [i \in DOMAIN usable |-> [content |-> usable[i], search_target |-> target]]

NextAfterQueryAborting(failed, last) == IF failed \/ last THEN "combine" ELSE "search"

\* `except Exception ... continue`: the loop goes on to the next query whatever happened
NextAfterQuery(failed, last) == IF last THEN "combine" ELSE "search"

\* one pass of the search loop: the next query is sent; it fails, or its documents are kept
Search ==
    /\ rpc = "search"
    /\ Len(issued) < Len(search_targets)
    /\ LET target == search_targets[Len(issued) + 1]
           last == Len(issued) + 1 = Len(search_targets)
       IN \/ /\ issued' = Append(issued, [target |-> target, failed |-> TRUE, answer |-> <<>>])
             /\ rpc' = NextAfterQuery(TRUE, last)
             /\ UNCHANGED retrieved
          \/ \E answer \in Answers :
                /\ issued' = Append(issued, [target |-> target, failed |-> FALSE, answer |-> answer])
                /\ retrieved' = retrieved \o Kept(answer, target)
                /\ rpc' = NextAfterQuery(FALSE, last)
    /\ UNCHANGED <<pipeline, parsing, content, has_index, search_targets, rag_context, generated>>

\* the deduplication by content: the first entry of each content stays
RECURSIVE Unique(_, _)
Unique(entries, seen) ==
    IF entries = <<>> THEN <<>>
    ELSE IF entries[1].content \in seen THEN Unique(Tail(entries), seen)
    ELSE <<entries[1]>> \o Unique(Tail(entries), seen \cup {entries[1].content})

TakeAll(seq, n) == seq

\* the slices [:15] and [:3]
Take(seq, n) == SubSeq(seq, 1, Min(Len(seq), n))

TotalLimit == 15
PerTargetLimit == 3

\* the targets of the entries, each once, in the order they first appear
RECURSIVE TargetsOf(_, _)
TargetsOf(entries, seen) ==
    IF entries = <<>> THEN <<>>
    ELSE IF entries[1].search_target \in seen THEN TargetsOf(Tail(entries), seen)
    ELSE <<entries[1].search_target>>
            \o TargetsOf(Tail(entries), seen \cup {entries[1].search_target})

\* target_groups as the context shows them: unique_results[:15] grouped by target, results[:3]
\* of each group
ContextGroups(entries) ==
    LET limited == Take(Unique(entries, {}), TotalLimit)
        targets == TargetsOf(limited, {})
    IN [i \in DOMAIN targets |->
           [target |-> targets[i],
            contents |-> Take(SelectSeq([j \in DOMAIN limited |->
                                            IF limited[j].search_target = targets[i]
                                            THEN limited[j].content ELSE 0],
                                        LAMBDA x : x # 0),
                              PerTargetLimit)]]

\* the rest of _get_rag_context: the context is built from what was kept ("" when nothing was)
Combine ==
    /\ rpc = "combine"
    /\ rag_context' = ContextGroups(retrieved)
    /\ rpc' = "generate"
    /\ UNCHANGED <<pipeline, parsing, content, has_index, search_targets, issued, retrieved, generated>>

\* exec_async goes on to parse_code_file_detailed with the context, whatever it holds
Generate ==
    /\ rpc = "generate"
    /\ generated' \in {"success", "error"}
    /\ rpc' = "done"
    /\ UNCHANGED <<pipeline, parsing, content, has_index, search_targets, issued, retrieved, rag_context>>

RetrievalNext ==
    \/ ExtractQueries
    \/ Search
    \/ Combine
    \/ Generate

SpecRetrieval == RetrievalInit /\ [][RetrievalNext]_vars

(* ========== the context built from many passages (top_k = 5) =========== *)
\* a file with one class and two functions outside it: four queries
ManyQueriesContent ==
    [classes |-> <<"Foo">>, methods |-> <<{}>>, functions |-> {"helper"}, nested |-> {"inner"}]

\* search_knowledge(..., top_k=5)
TopK == 5

\* the answers followed: runs of consecutive passages, so that queries return passages of
\* earlier queries again, one target gets more than three and the file more than fifteen
PassageStarts == {1, 4, 6, 11, 16}
PassageRuns == {0, 2, TopK}
PassageAnswers ==
    {[i \in 1..n |-> b + i - 1] : b \in {c \in PassageStarts : c <= MaxPassage}, n \in PassageRuns}

ContextInit ==
    /\ PipelineInit
    /\ mode = "node" /\ max_concurrent = 1 /\ batch_size = 1 /\ local_path
    /\ retry_delay = UnitDelay
    /\ content = ManyQueriesContent
    /\ has_index = TRUE
    /\ \E S \in ExtractIndependentFunctions(content) :
          \E fs \in Orderings(S) : search_targets = BuildQueries(content, fs)
    /\ issued = <<>>
    /\ retrieved = <<>>
    /\ rag_context = <<>>
    /\ generated = "none"
    /\ rpc = "search"
    /\ ParsingIdle

\* one pass of the search loop with an answer of up to top_k passages
SearchPassages ==
    /\ rpc = "search"
    /\ Len(issued) < Len(search_targets)
    /\ LET target == search_targets[Len(issued) + 1]
           last == Len(issued) + 1 = Len(search_targets)
       IN \E answer \in PassageAnswers :
             /\ issued' = Append(issued, [target |-> target, failed |-> FALSE, answer |-> answer])
             /\ retrieved' = retrieved \o Kept(answer, target)
             /\ rpc' = NextAfterQuery(FALSE, last)
    /\ UNCHANGED <<pipeline, parsing, content, has_index, search_targets, rag_context, generated>>

ContextNext ==
    \/ SearchPassages
    \/ Combine
    \/ Generate

SpecContext == ContextInit /\ [][ContextNext]_vars

(* ============================ properties ============================== *)
RecordPaths == [i \in DOMAIN json_file.files |-> json_file.files[i].file_path]
RecordedFiles == {json_file.files[i].file_path : i \in DOMAIN json_file.files}
Failed == {f \in Files : HasError(result[f])}
Pending == {f \in Files : pc[f] \in {"start", "wait", "call", "sleep"}}
Collected == phase \in {"returned", "finwrite", "findump", "backup", "finished"}
\* a json.dump of the structured report failed after open(.., "w") had emptied it
DumpFailed == \E t \in 0..NumFiles : <<t, "dump">> \in write_errors
\* the final statistics reached both artifacts (no finalization write failed)
StatisticsWritten == \A kind \in {"md", "json", "dump"} : <<NoTask, kind>> \notin write_errors

\* C1: for every ceiling max_concurrent, the generation calls that are past the admission
\* gate and have neither returned nor failed for good never number more than max_concurrent.
C1_InFlightWithinCeiling == Cardinality(InFlight) <= max_concurrent

\* the gate is full while another file is held back at it
C1_Witness ==
    /\ Cardinality(InFlight) = max_concurrent
    /\ \E f \in Files : pc[f] = "wait"
    /\ \E f \in Files : pc[f] = "sleep"

\* C2: a call is given up only after max_retries failed attempts, so when the first
\* max_retries-1 attempts fail and the last one succeeds (returns a response that decodes) the
\* call returns that response and the file's result is a success carrying the response's
\* items, with no error; an error from exhausted retries arises only after max_retries
\* failures, and a response that does not decode gives a decoding error, not a request failure.
C2_RetryThenSuccess ==
    \A f \in Files :
        pc[f] = "parsed" =>
            /\ (result[f].error = ExhaustedError) =
                   (response[f] = NoResponse /\ attempt[f] = MaxRetries - 1)
            /\ response[f].kind = "json" =>
                   result[f] = [file_path |-> f, analysis_items |-> response[f].items, error |-> ""]
            /\ response[f].kind = "bad" => result[f].error = "JSON parsing error"

\* two failures, then a response that decodes: the file succeeds
C2_Witness ==
    \E f \in Files :
        /\ pc[f] = "parsed" /\ attempt[f] = MaxRetries - 1
        /\ response[f].kind = "json" /\ ~HasError(result[f])

\* C3: when all max_retries attempts fail, parse_code_file_detailed still returns a result
\* for the file, with no analysis items and a non-empty error string.
C3_ExhaustionGivesErrorResult ==
    \A f \in Files :
        (pc[f] = "parsed" /\ response[f] = NoResponse) =>
            /\ attempt[f] = MaxRetries - 1
            /\ result[f].file_path = f
            /\ result[f].analysis_items = 0
            /\ result[f].error # ""

\* a file all of whose attempts failed
C3_Witness ==
    \E f \in Files :
        /\ pc[f] = "parsed" /\ response[f] = NoResponse /\ attempt[f] = MaxRetries - 1
        /\ failed_calls >= MaxRetries
        /\ HasError(result[f])

\* C4: whatever happened to each file, the run hands back exactly one result per input file,
\* in input order and labelled with that file's own path.
C4_OneResultPerFile ==
    Collected =>
        /\ Len(all_results) = NumFiles
        /\ \A f \in Files : all_results[f].file_path = f /\ all_results[f] = result[f]
        /\ \A f \in Files : all_results[f].error # "unset"

\* a finished run in which one file failed after its retries, one failed to decode and
\* one succeeded
C4_Witness ==
    /\ Collected
    /\ \E f, g, h \in Files :
          /\ all_results[f].error = ExhaustedError
          /\ all_results[g].error = "JSON parsing error"
          /\ ~HasError(all_results[h])

\* C5: once every file has settled, post_async counts total = number of files, failed =
\* number of results carrying an error and success = total - failed (a file whose retrieval
\* gave nothing but whose generation succeeded is a success), hands on exactly the successes,
\* and the finalized structured report holds one record, with items, for each success that
\* produced items and was written; with one file of three failing all retries and the other
\* two succeeding with items this is total 3, success 2, failed 1 and two records.
C5_AggregateCounts ==
    (mode = "node" /\ Collected) =>
        /\ Len(code_analysis) = NumFiles - Cardinality(Failed)
        /\ \A i \in DOMAIN code_analysis : ~HasError(code_analysis[i])
        /\ \A f \in Files :
              (context[f] = "empty" /\ ~HasError(result[f]))
                  => \E i \in DOMAIN code_analysis : code_analysis[i] = result[f]
        /\ (phase = "finished" /\ paths_recorded) =>
              /\ StatisticsWritten => json_file.summary.total_files_processed = NumFiles
              /\ StatisticsWritten => json_file.summary.failed_files = Cardinality(Failed)
              /\ StatisticsWritten
                    => json_file.summary.successful_files = NumFiles - Cardinality(Failed)
              /\ json_file.valid =>
                    RecordedFiles = {f \in Files : /\ ~HasError(result[f])
                                                   /\ result[f].analysis_items > 0
                                                   /\ <<f, "json">> \notin write_errors}
              /\ Len(json_file.files) = Cardinality(RecordedFiles)
              /\ \A i \in DOMAIN json_file.files : json_file.files[i].analysis_items > 0

\* the scenario: one file succeeds, one fails all its retries, one gets no context from
\* retrieval and still succeeds, every other file succeeds
C5_Witness ==
    /\ mode = "node" /\ phase = "finished" /\ paths_recorded /\ write_errors = {}
    /\ \E a, b, c \in Files :
          /\ context[a] = "some" /\ ~HasError(result[a]) /\ result[a].analysis_items > 0
          /\ result[b].error = ExhaustedError
          /\ context[c] = "empty" /\ ~HasError(result[c]) /\ result[c].analysis_items > 0
    /\ json_file.summary = [total_files_processed |-> NumFiles,
                            successful_files |-> NumFiles - 1,
                            failed_files |-> 1]
    /\ Len(json_file.files) = NumFiles - 1

\* C6: in parse_files_in_batches the files of one chunk are launched together, and no file of
\* a later chunk is launched before every file of the earlier chunks has settled.
C6_ChunksSequential ==
    mode = "batches" =>
        \A f, g \in Files :
            /\ (ChunkOf(f) < ChunkOf(g) /\ g \in Launched) => f \in Settled
            /\ ChunkOf(f) = ChunkOf(g) => (f \in Launched <=> g \in Launched)

\* a later chunk is under way, after an earlier chunk in which a file needed a retry
C6_Witness ==
    /\ mode = "batches" /\ failed_calls > 0
    /\ \E f, g \in Files :
          /\ ChunkOf(f) < ChunkOf(g) /\ ChunkOf(g) = ChunkOf(NumFiles)
          /\ pc[g] = "call" /\ f \in Settled

\* C7 (as stated): the files launched and not yet settled never number more than batch_size.
C7_PendingWithinChunkSize == Cardinality(Pending) <= batch_size

\* C8 (as stated): whenever the event loop is between tasks, with the report initialised and
\* no write having failed, the structured report holds exactly the records of the files whose
\* analysis has completed successfully with items.
C8_ReportHoldsCompletedFiles ==
    (/\ ~interrupted /\ running = NoTask /\ phase # "findump"
     /\ paths_recorded /\ write_errors = {}) =>
        RecordedFiles = {f \in Settled : ~HasError(result[f]) /\ result[f].analysis_items > 0}

\* C9: appends to the structured report are serialized: in a run whose report was
\* initialised, at most one task is between reading the artifact and writing it back, the
\* records on disk are exactly the completed appends in their order (none lost to another
\* task's write), and the artifact is valid whenever no write is under way (and none broke
\* off half-way).
C9_AppendsSerialized ==
    (~interrupted /\ paths_recorded) =>
        /\ Cardinality({f \in Files : pc[f] \in {"jsonwrite", "jsondump"}}) <= 1
        /\ json_file.valid => RecordPaths = appended
        /\ \A f \in Files : pc[f] = "jsonwrite" => json_data[f].files = Append(json_file.files, FileRecord(result[f]))
        /\ ((\A f \in Files : pc[f] # "jsondump") /\ phase # "findump" /\ ~DumpFailed)
              => json_file.valid

\* a file is writing its record back while another file is suspended in its retry loop and
\* a third has already been appended
C9_Witness ==
    \E f, g \in Files :
        /\ pc[f] = "jsondump" /\ pc[g] \in {"sleep", "wait"}
        /\ Len(appended) >= 1

\* C10 (as stated): after an interruption that follows the append of one or more files, the
\* structured report is valid and holds the record of every file whose append had completed.
C10_InterruptKeepsAppended ==
    (interrupted /\ Len(appended) >= 1) => (json_file.valid /\ RecordPaths = appended)

\* the number of analysis items over the file records of a report
RECURSIVE ItemsIn(_)
ItemsIn(files) ==
    IF files = <<>> THEN 0 ELSE files[1].analysis_items + ItemsIn(Tail(files))

\* the sum of the per-target counts of statistics.search_targets
RECURSIVE TargetsTotal(_, _)
TargetsTotal(counts, S) ==
    IF S = {} THEN 0
    ELSE LET t == CHOOSE x \in S : TRUE IN counts[t] + TargetsTotal(counts, S \ {t})

CountersAgree(data) ==
    /\ data.total_files = Len(data.files)
    /\ data.total_snippets = ItemsIn(data.files)
    /\ TargetsTotal(data.search_targets, Targets) = data.total_snippets

\* C11: whenever the structured report is readable (after initialization and after every
\* append), statistics.total_files is the number of file records, statistics.total_snippets the
\* number of analysis items over all file records, and the counts of statistics.search_targets
\* sum to total_snippets; the same holds of the copy a task is about to write back.
C11_CountersMatchRecords ==
    /\ json_file.valid => CountersAgree(json_file)
    /\ \A f \in Files : pc[f] \in {"jsonwrite", "jsondump"} => CountersAgree(json_data[f])

\* two appends are on disk, one of a file with several items, and items under the class
\* target as well as under a file-level target
C11_Witness ==
    /\ json_file.valid /\ Len(json_file.files) >= 2
    /\ json_file.total_snippets > json_file.total_files
    /\ json_file.search_targets[ClassTarget] > 0
    /\ \E f \in Files : json_file.search_targets[f] > 0

\* C12 (as stated): every file that has settled, with a success or with a failure result, has
\* had the progress callback called with its path, and the callback is called for a file only
\* once its generation has settled.
C12_CallbackForEverySettledFile ==
    /\ \A f \in Settled : f \in called_back
    /\ \A f \in called_back : result[f].error # "unset"

\* C13: an exception raised by the progress callback does not propagate: in every step a
\* file's task takes from the callback on, whether the callback returned or raised, the file's
\* result stays what it was (a success stays a success), both report artifacts stay as they
\* are, the task goes on to return, and no other file's task is disturbed.
C13_CallbackExceptionContained ==
    [][\A f \in Files :
          (pc[f] \in {"callback", "caught"} /\ ~interrupted') =>
              /\ result'[f] = result[f]
              /\ json_file' = json_file /\ md_file' = md_file
              /\ pc'[f] \in {"callback", "caught", "done"}
              /\ \A g \in Files \ {f} : pc'[g] = pc[g]]_vars

\* the callback has raised for a file that succeeded and whose record is in the report, while
\* another file is still in its retry loop or waiting at the gate
C13_Witness ==
    \E f, g \in Files :
        /\ pc[f] = "caught" /\ ~HasError(result[f])
        /\ f \in RecordedFiles /\ json_file.valid
        /\ pc[g] \in {"sleep", "wait"}

ExpectedRecords == {FileRecord(result[f]) : f \in {g \in Files : ShouldAppend(result[g])}}
ExpectedSnippets == ItemsIn([f \in Files |-> IF ShouldAppend(result[f]) THEN result[f]
                                             ELSE [analysis_items |-> 0]])

\* C15: a run that starts on the artifacts of an earlier run over the same files ends, when no
\* write failed, with counters and records that are a function of the files' results alone,
\* whatever the earlier report held and in whatever order the files completed: total, success
\* and failed counts, one record per success with items, the item totals of exactly these
\* records, and one section per such file followed by one statistics section in the markdown
\* report; so two runs with the same responses end with the same counters and item counts.
C15_RerunGivesSameCounters ==
    (mode = "node" /\ phase = "finished" /\ paths_recorded /\ write_errors = {}) =>
        /\ Len(code_analysis) = NumFiles - Cardinality(Failed)
        /\ json_file.summary = [total_files_processed |-> NumFiles,
                                successful_files |-> NumFiles - Cardinality(Failed),
                                failed_files |-> Cardinality(Failed)]
        /\ {json_file.files[i] : i \in DOMAIN json_file.files} = ExpectedRecords
        /\ json_file.total_files = Cardinality(ExpectedRecords)
        /\ Len(json_file.files) = Cardinality(ExpectedRecords)
        /\ json_file.total_snippets = ExpectedSnippets
        /\ Len(md_file) = Cardinality(ExpectedRecords) + 1
        /\ md_file[Len(md_file)] = StatsSection(NumFiles - Cardinality(Failed), Cardinality(Failed))
        /\ {md_file[i].file_path : i \in 1..(Len(md_file) - 1)} = {r.file_path : r \in ExpectedRecords}

\* the run has finished with the first file, the one the earlier report had a record of,
\* failed, and with the other files recorded in another order than they were given in
C15_Witness ==
    /\ mode = "node" /\ phase = "finished" /\ paths_recorded /\ write_errors = {}
    /\ HasError(result[1])
    /\ Len(json_file.files) >= 2
    /\ json_file.files[1].file_path > json_file.files[2].file_path

\* the queries of one kind among the targets built for the file
QueriesOf(kind) == SelectSeq(search_targets, LAMBDA q : q.kind = kind)
QueriedNames(kind) == {search_targets[i].name : i \in {j \in DOMAIN search_targets : search_targets[j].kind = kind}}
QueriesBuilt == rpc \in {"search", "combine", "generate", "done"}

\* the file of the example: class Foo with methods bar and baz, and the function helper
ExampleContent ==
    [classes |-> <<"Foo">>, methods |-> <<{"bar", "baz"}>>, functions |-> {"helper"}, nested |-> {}]

IssuedTargets == [i \in DOMAIN issued |-> issued[i].target]

\* C17: a retrieval query that fails is skipped without aborting the file: while the loop runs
\* the queries sent are a prefix of the file's queries and the next one is still to be sent,
\* after the loop every query of the file has been sent in order whichever of them failed,
\* every usable document a successful query returned is kept among the results, and the
\* generation call is made, with an empty context exactly when nothing was retrieved.
C17_FailedQuerySkipped ==
    /\ rpc = "search" =>
          /\ Len(issued) < Len(search_targets)
          /\ IssuedTargets = SubSeq(search_targets, 1, Len(issued))
    /\ rpc \in {"combine", "generate", "done"} => IssuedTargets = search_targets
    /\ \A i \in DOMAIN issued :
          ~issued[i].failed =>
             \A k \in DOMAIN issued[i].answer :
                issued[i].answer[k] # 0 =>
                   \E j \in DOMAIN retrieved :
                      retrieved[j] = [content |-> issued[i].answer[k],
                                      search_target |-> issued[i].target]
    /\ rpc \in {"generate", "done"} =>
          (retrieved = <<>>) = (rag_context = <<>>)
    /\ rpc = "done" => generated \in {"success", "error"}
    /\ generated # "none" => rpc = "done"

\* a query failed, a later query of the same file returned a passage that was kept, and the
\* generation call succeeded
C17_Witness ==
    /\ rpc = "done" /\ generated = "success"
    /\ \E i, j \in DOMAIN issued :
          /\ i < j /\ issued[i].failed /\ ~issued[j].failed
          /\ \E k \in DOMAIN retrieved : retrieved[k].search_target = issued[j].target

\* the parts of the artifacts that speak of one file: its section of the report and its record
\* of the structured report; the statistics hold counts only
SpokenOf(f) ==
    \/ \E i \in DOMAIN md_file : md_file[i].section = "file" /\ md_file[i].file_path = f
    \/ json_file.valid /\ \E i \in DOMAIN json_file.files : json_file.files[i].file_path = f

\* C18: when a run has ended, the final statistics of the report artifacts hold the number of
\* failed files, equal to the number of files whose result carries an error, and the failure
\* reason of each failed file, so each failed file is spoken of in the artifacts.
C18_FinalStatisticsReportFailures ==
    (mode = "node" /\ phase = "finished" /\ paths_recorded /\ StatisticsWritten) =>
        /\ md_file[Len(md_file)] = StatsSection(NumFiles - Cardinality(Failed), Cardinality(Failed))
        /\ json_file.summary.failed_files = Cardinality(Failed)
        /\ \A f \in Failed : SpokenOf(f)

\* _finalize_analysis_report has been entered
Finalizing == mode = "node" /\ phase \in {"finwrite", "findump", "backup", "finished"}
SectionsOf(md, kind) == SelectSeq(md, LAMBDA x : x.section = kind)

\* C19: finalization runs once, after every file has settled; the final statistics are added to
\* both artifacts before the one backup copy of each is made, so a backup equals its artifact,
\* the report's backup ends with the one statistics section and the structured report's backup
\* holds the final summary (when reading the structured report back did not fail); from the
\* start of finalization on no per-file section or record is added and the backups stay as
\* they are.
C19_FinalizationThenBackup ==
    /\ []((Finalizing /\ paths_recorded) =>
            /\ Settled = Files
            /\ Len(SectionsOf(md_file, "stats")) <= 1)
    /\ []((backups # <<>>) =>
            /\ phase = "finished"
            /\ backups = <<md_file, json_file>>
            /\ Len(SectionsOf(backups[1], "stats")) = 1
            /\ backups[1][Len(backups[1])]
                  = StatsSection(NumFiles - Cardinality(Failed), Cardinality(Failed))
            /\ StatisticsWritten =>
                  backups[2].summary = [total_files_processed |-> NumFiles,
                                        successful_files |-> NumFiles - Cardinality(Failed),
                                        failed_files |-> Cardinality(Failed)])
    /\ [][Finalizing =>
            /\ SectionsOf(md_file', "file") = SectionsOf(md_file, "file")
            /\ (json_file.valid /\ json_file'.valid) => json_file'.files = json_file.files
            /\ backups # <<>> => backups' = backups]_vars

\* a finalized run with a failed file and an appended one, whose backups were made
C19_Witness ==
    /\ phase = "finished" /\ backups # <<>> /\ StatisticsWritten
    /\ Failed # {} /\ appended # <<>>
    /\ Len(SectionsOf(backups[1], "file")) > 0

WriteFailed == {f \in Files : \E kind \in {"md", "json", "dump"} : <<f, kind>> \in write_errors}
SectionFiles == {md_file[i].file_path : i \in {j \in DOMAIN md_file : md_file[j].section = "file"}}

\* C21: a failure while appending a file's result to an artifact is logged and not fatal: the
\* file's task goes on to its end with a result that carries no error, the file is among the
\* successes handed on and counted in the final statistics, its section (record) is missing
\* from the artifact whose write failed, and a file that comes to append after the failure is
\* still appended: it reads the structured report and goes on to write it, unless its own read
\* fails.
C21_AppendFailureNotFatal ==
    /\ [](~interrupted =>
            /\ \A f \in WriteFailed :
                  /\ ~HasError(result[f])
                  /\ pc[f] \in {"jsonread", "jsonwrite", "jsondump", "callback", "caught", "done"}
                  /\ <<f, "md">> \in write_errors => f \notin SectionFiles
                  /\ (<<f, "json">> \in write_errors /\ json_file.valid) => f \notin RecordedFiles
                  /\ Finalizing => \E i \in DOMAIN code_analysis : code_analysis[i] = result[f]
            /\ (Finalizing /\ phase = "finished" /\ paths_recorded /\ StatisticsWritten) =>
                  json_file.summary.successful_files = NumFiles - Cardinality(Failed))
    /\ [][\A g \in Files :
            (/\ WriteFailed # {} /\ ~interrupted'
             /\ pc[g] = "jsonread" /\ pc'[g] # "jsonread") =>
                \/ pc'[g] = "jsonwrite"
                \/ <<g, "json">> \in write_errors']_vars

\* C22: a generation call makes at most max_retries attempts; after the failed attempt number
\* k (from 0) that is not the last it sleeps retry_delay * 2^k before the next attempt, and it
\* does not sleep anywhere else, in particular not after the last failed attempt.
C22_BackoffDoubles ==
    \A f \in Files :
        /\ attempt[f] \in 0..(MaxRetries - 1)
        /\ pc[f] = "sleep" =>
              /\ attempt[f] < MaxRetries - 1
              /\ \/ attempt[f] = 0 /\ delay[f] = retry_delay
                 \/ attempt[f] = 1 /\ delay[f] = retry_delay + retry_delay
                 \/ attempt[f] > 1 /\ delay[f] = retry_delay * 2^attempt[f]
        /\ pc[f] # "sleep" => delay[f] = 0
        /\ (pc[f] = "parsed" /\ result[f].error = ExhaustedError) =>
              attempt[f] = MaxRetries - 1 /\ delay[f] = 0

\* with a retry delay of more than one unit a call sleeps twice the delay after its second
\* failed attempt, while the call of an earlier file has returned
C22_Witness ==
    /\ retry_delay > 1
    /\ \E f, g \in Files :
          /\ pc[f] = "sleep" /\ attempt[f] = 1 /\ delay[f] = 2 * retry_delay
          /\ pc[g] = "done" /\ ~HasError(result[g])

\* the terminal states of a file
Succeeded(f) == pc[f] = "done" /\ ~HasError(result[f])
FailedFinally(f) == pc[f] = "done" /\ HasError(result[f])

\* C23: when every call returns or fails in the end, every discovered file eventually is
\* Succeeded or Failed (never both) and stays so, no call goes beyond max_retries attempts, a
\* settled file changes neither its state nor its result any more, and the run reaches
\* finalization, which finds every file settled.
C23_EveryFileSettles ==
    /\ \A f \in Files : <>[](Succeeded(f) \/ FailedFinally(f))
    /\ [](\A f \in Files : /\ ~(Succeeded(f) /\ FailedFinally(f))
                            /\ attempt[f] <= MaxRetries - 1)
    /\ [][\A f \in Files : pc[f] = "done" => (pc'[f] = "done" /\ result'[f] = result[f])]_vars
    /\ <>(phase = "finished")
    /\ [](phase = "finished" => \A f \in Files : pc[f] = "done")

\* the run is finalized with one file Failed after exhausting its attempts and the others
\* Succeeded
C23_Witness ==
    /\ phase = "finished"
    /\ \E f \in Files :
          /\ FailedFinally(f) /\ result[f].error = ExhaustedError
          /\ \A g \in Files \ {f} : Succeeded(g)

\* the passages the context shows, group after group
RECURSIVE Flatten(_)
Flatten(groups) ==
    IF groups = <<>> THEN <<>>
    ELSE [i \in DOMAIN groups[1].contents |->
             [content |-> groups[1].contents[i], search_target |-> groups[1].target]]
         \o Flatten(Tail(groups))

Shown == Flatten(rag_context)

RequiredKeys == {"title", "description", "source", "language", "code"}

\* the items a response may list: a dict with all the keys, a dict lacking
\* one of them, a dict with none of them, or something that is no dict
ItemKeys == {RequiredKeys} \cup {RequiredKeys \ {k} : k \in RequiredKeys} \cup {{}}
ItemShapes == [dict : {TRUE}, keys : ItemKeys] \cup {[dict |-> FALSE, keys |-> {}]}

RECURSIVE ItemLists(_)
\* the lists of n items; an item is told apart by the place it has in the response
ItemLists(n) ==
    IF n = 0 THEN {<<>>}
    ELSE {Append(l, [pos |-> n, dict |-> sh.dict, keys |-> sh.keys]) :
             l \in ItemLists(n - 1), sh \in ItemShapes}

\* the text of the response: no JSON at all, JSON that is no object, or an
\* object, with or without an "analysis_items" list and an "error" key of its own
LLMResponses ==
    {[kind |-> k, has_items |-> FALSE, own_error |-> FALSE, items |-> <<>>] : k \in {"text", "list"}}
    \cup {[kind |-> "dict", has_items |-> FALSE, own_error |-> e, items |-> <<>>] : e \in BOOLEAN}
    \cup {[kind |-> "dict", has_items |-> TRUE, own_error |-> e, items |-> l] :
             e \in BOOLEAN, l \in UNION {ItemLists(n) : n \in 0..MaxResponseItems}}

ItemValidWithAnyKey(item) == item.dict /\ item.keys # {}

\* isinstance(item, dict) and all(key in item for key in [...])
ItemValid(item) == item.dict /\ RequiredKeys \subseteq item.keys

\* _parse_detailed_response on a decoded response
ParseDetailed(resp) ==
    IF resp.kind = "text"
    THEN [state |-> "returned", analysis_items |-> <<>>, error |-> "JSON parsing error"]
    ELSE IF resp.kind = "list"
    THEN [state |-> "returned", analysis_items |-> <<>>, error |-> "Invalid response format"]
    ELSE [state |-> "returned",
          analysis_items |-> SelectSeq(resp.items, ItemValid),
          error |-> IF resp.own_error THEN "reported by the model" ELSE ""]

ParseInit ==
    /\ PipelineInit /\ RetrievalIdle
    /\ retry_delay = UnitDelay
    /\ llm_response \in LLMResponses
    /\ parsed = NotParsed

ParseResponse ==
    /\ parsed.state = "none"
    /\ parsed' = ParseDetailed(llm_response)
    /\ UNCHANGED <<pipeline, retrieval, llm_response>>

ParseNext == ParseResponse

SpecParse == ParseInit /\ [][ParseNext]_vars

\* C25: of the items of a response that decodes to an object, exactly those
\* that are dicts carrying all of title, description, source, language and
\* code are in the result, in the order the response had them and once each;
\* dropping items, even all of them, puts no error in the result: it has one
\* only if the response itself carried one
C25_InvalidItemsDropped ==
    (parsed.state = "returned" /\ llm_response.kind = "dict") =>
        LET items == llm_response.items
            kept  == parsed.analysis_items
        IN  /\ \A i \in DOMAIN items :
                  (items[i].dict /\ \A k \in RequiredKeys : k \in items[i].keys)
                      <=> (\E j \in DOMAIN kept : kept[j] = items[i])
            /\ \A j \in DOMAIN kept : \E i \in DOMAIN items : kept[j] = items[i]
            /\ \A j, k \in DOMAIN kept : j < k => kept[j].pos < kept[k].pos
            /\ (parsed.error # "") = llm_response.own_error

\* a valid item, an item without "code", a valid item: the first and the
\* third are kept in that order and the result carries no error
C25_Witness ==
    /\ parsed.state = "returned"
    /\ llm_response.kind = "dict"
    /\ Len(llm_response.items) = 3
    /\ llm_response.items[2].keys = RequiredKeys \ {"code"}
    /\ Len(parsed.analysis_items) = 2
    /\ parsed.analysis_items[1].pos = 1
    /\ parsed.analysis_items[2].pos = 3
    /\ parsed.error = ""

\* C26: a call holds one slot of the gate from its admission to its return:
\* the free slots are always the ceiling less the calls that are between
\* admission and return, a call that is waiting out a backoff included; a step
\* of a call that keeps it inside its retry sequence (into a backoff, out of
\* it into the next attempt) leaves the slot count as it is,
\* the step that ends the sequence (a response, or the failure of the last
\* attempt) gives back exactly one slot; with no call in flight every slot is
\* free
C26_SlotHeldAcrossRetries ==
    /\ [](semaphore = max_concurrent - Cardinality(InFlight))
    /\ [][\A f \in Files :
             /\ (f \in InFlight /\ f \in InFlight' /\ pc'[f] # pc[f])
                    => semaphore' = semaphore
             /\ (f \in InFlight /\ f \notin InFlight' /\ ~interrupted')
                    => (semaphore' = semaphore + 1 /\ pc'[f] = "parsed")]_vars
    /\ []((InFlight = {}) => semaphore = max_concurrent)

\* with every slot taken, one call sleeps out its second backoff while
\* another waits at the gate
C26_Witness ==
    /\ semaphore = 0
    /\ \E f, g \in Files :
          /\ pc[f] = "sleep" /\ attempt[f] = 1
          /\ pc[g] = "wait"

\* the files whose record a copy of the structured report holds
RecordsOf(data) == {data.files[i].file_path : i \in DOMAIN data.files}

\* C27: a file whose result carries an error is never written to an artifact:
\* every step that adds a file's section to the report, or its record to the
\* structured report, is the step of a file whose result has no error; and
\* in a run that initialized the artifacts and was not killed, no artifact
\* holds a section or a record of a file whose result has an error (or of one
\* that has no result yet)
C27_ErrorResultNeverWritten ==
    /\ [][\A f \in Files :
             (f \in SectionFiles' \ SectionFiles \/ f \in RecordedFiles' \ RecordedFiles)
                 => (~HasError(result[f]) /\ result[f].file_path = f)]_vars
    /\ []((paths_recorded /\ ~interrupted) =>
             \A f \in Files :
                 HasError(result[f]) =>
                     /\ f \notin SectionFiles
                     /\ f \notin RecordedFiles
                     /\ \A t \in 0..NumFiles : f \notin RecordsOf(json_data[t]))

\* a file whose response carried items and an error of its own has finished,
\* another file's items are in both artifacts, the first file is in neither
C27_Witness ==
    /\ ~interrupted
    /\ \E f, g \in Files :
          /\ pc[f] = "done"
          /\ HasError(result[f]) /\ result[f].analysis_items > 0
          /\ f \notin SectionFiles /\ f \notin RecordedFiles
          /\ g \in SectionFiles /\ g \in RecordedFiles
          /\ ~HasError(result[g])

\* the files whose result carries no error, with and without items
Successful == {f \in Files : ~HasError(result[f])}
SuccessfulWithoutItems == {f \in Successful : result[f].analysis_items = 0}
\* a file's append to the structured report failed (at the read, or at the write)
RecordNotWritten == {f \in Files : \E kind \in {"json", "dump", "unreadable"} : <<f, kind>> \in write_errors}
\* the run has ended and _finalize_json_report has written the summary
FinalizedJson ==
    /\ mode = "node" /\ phase = "finished" /\ ~interrupted /\ paths_recorded
    /\ json_file.valid /\ json_file.summary # NoSummary

\* C28: a file that has ended without error and without items has no section
\* in the report and no record in the structured report, and is among the
\* successes handed on; in the finalized structured report total_files is at
\* most summary.successful_files, which counts every file without error, and
\* the two are equal exactly when every such file has at least one item and
\* no append of a record has failed
C28_TotalFilesAtMostSuccessful ==
    /\ (paths_recorded /\ ~interrupted) =>
          \A f \in SuccessfulWithoutItems : f \notin SectionFiles /\ f \notin RecordedFiles
    /\ (FinalizedJson /\ ~interrupted) =>
          /\ \A f \in SuccessfulWithoutItems :
                \E i \in DOMAIN code_analysis : code_analysis[i].file_path = f
          /\ json_file.summary.successful_files = Cardinality(Successful)
          /\ json_file.total_files <= json_file.summary.successful_files
          /\ (json_file.total_files = json_file.summary.successful_files)
                <=> (SuccessfulWithoutItems = {} /\ Successful \cap RecordNotWritten = {})

\* of two files without error one has items and one has none: the finalized
\* structured report counts one file in its statistics and two successes
C28_Witness ==
    /\ FinalizedJson
    /\ SuccessfulWithoutItems # {}
    /\ json_file.total_files = 1
    /\ json_file.summary.successful_files = 2
    /\ RecordNotWritten = {}

\* the files of the report's sections and of the structured report's records, in file order
SectionOrder == [i \in DOMAIN SectionsOf(md_file, "file") |-> SectionsOf(md_file, "file")[i].file_path]
RecordOrder == [i \in DOMAIN json_file.files |-> json_file.files[i].file_path]
\* a file's task is between the write of its section and the write of its record
MidAppend == {f \in Files : pc[f] \in {"jsonread", "jsonwrite", "jsondump"}}
IsPrefix(s, t) == Len(s) <= Len(t) /\ \A i \in DOMAIN s : s[i] = t[i]
NoRepeat(s) == \A i, j \in DOMAIN s : s[i] = s[j] => i = j

\* C29: in a run that initialized the artifacts and met no write failure, no
\* file has two sections or two records, the files of the records are, in
\* order, the first files of the sections, and the two orders are the same
\* whenever no file is between writing its section and writing its record
C29_SameOrderInBothArtifacts ==
    (paths_recorded /\ write_errors = {}) =>
        /\ NoRepeat(SectionOrder)
        /\ NoRepeat(RecordOrder)
        /\ (json_file.valid => IsPrefix(RecordOrder, SectionOrder))
        /\ (~interrupted /\ MidAppend = {} /\ phase # "findump") => RecordOrder = SectionOrder

\* three files have been appended in another order than they were started
\* in, and both artifacts hold them in that order
C29_Witness ==
    /\ write_errors = {} /\ paths_recorded /\ ~interrupted
    /\ MidAppend = {}
    /\ Len(RecordOrder) = NumFiles
    /\ RecordOrder = SectionOrder
    /\ RecordOrder[1] # 1

\* _initialize_analysis_file has failed: prep_async is over and no path is in shared
InitializationFailed == ~paths_recorded /\ phase \notin {"prep", "raised"}
\* the file's generation call has returned its result to exec_async
ResultKnown(f) == pc[f] \in {"parsed", "jsonread", "jsonwrite", "jsondump", "callback", "caught", "done"}

\* C30: a failed initialization of the artifacts (one that left the report
\* or the structured report other than freshly written) does not end the run,
\* and no path is recorded by it or after it; from then on no step writes to an
\* artifact, starts an append or makes a backup, the finalization included;
\* the appends and the finalization, run or skipped, never change a result a
\* file has got from generation, and at the end of a run, with or without
\* artifacts, the results handed on are the files' results and the success
\* list holds exactly those without error, in file order
C30_InitializationFailureSkipsArtifacts ==
    /\ [][(phase = "prep" /\ phase' = "raised") => ~local_path]_vars
    /\ [][(phase = "prep" /\ phase' \in {"launch", "retrieve"}
              /\ (md_file' # <<>> \/ json_file' # InitialJson)) => ~paths_recorded']_vars
    /\ [][InitializationFailed =>
             /\ ~paths_recorded'
             /\ md_file' = md_file /\ json_file' = json_file /\ backups' = backups
             /\ appended' = appended /\ write_errors' = write_errors
             /\ \A f \in Files : pc'[f] \notin {"jsonread", "jsonwrite", "jsondump"}
             /\ phase' \notin {"finwrite", "findump", "backup"}]_vars
    /\ [](InitializationFailed => backups = <<>> /\ appended = <<>>)
    /\ [][\A f \in Files : (ResultKnown(f) /\ ~interrupted') => result'[f] = result[f]]_vars
    /\ []((mode = "node" /\ phase = "finished" /\ ~interrupted) =>
             /\ all_results = ExecRes
             /\ code_analysis = SelectSeq(ExecRes, NoError))

\* the run has ended after a failed initialization: a file with items is in
\* the success list, the artifacts are those the earlier run left, and there
\* is no backup
C30_Witness ==
    /\ mode = "node" /\ phase = "finished" /\ ~interrupted
    /\ InitializationFailed
    /\ \E i \in DOMAIN code_analysis : code_analysis[i].analysis_items > 0
    /\ Len(code_analysis) < NumFiles
    /\ md_file = PreviousMarkdown
    /\ backups = <<>>

====
